---- MODULE Spec2Model ----
(***************************************************************************)
(* Model of script/convert_xmind_to_markdown.js: the outline renderer      *)
(* (getNodeTitle, nodeToMarkdown, xmindToMarkdown), the archive extractor  *)
(* (readXmindContent), the single-file conversion (convertXmindFile) and   *)
(* the batch of per-file tasks (processFile under pLimit / Promise.all).   *)
(*                                                                         *)
(* JavaScript values are records tagged by a field t. Primitives carry     *)
(* their text in v, so that any two primitives can be compared.  Strings   *)
(* of the program are TLA+ strings; "\n" is the line feed.  The two        *)
(* messages the source writes in Chinese are given in ASCII (MsgNoContent, *)
(* MsgInvalidFormat), as the module text is ASCII only.                    *)
(***************************************************************************)
EXTENDS Integers, Sequences, FiniteSets, TLC

VARIABLES
  content,        \* xmindToMarkdown: the argument content
  mode,           \* the rendering mode (xmindToMarkdown argument / answers.mode)
  rpc,            \* xmindToMarkdown: position of the call
  i,              \* xmindToMarkdown: the loop index (zero-based, line 124)
  markdown,       \* xmindToMarkdown: the accumulator (line 121)
  thrown,         \* xmindToMarkdown: the error thrown, if any
  callNode,       \* nodeToMarkdown: the node of the call in focus
  callLevel,      \* nodeToMarkdown: its level
  callOut,        \* nodeToMarkdown: its return value
  callRoot,       \* whether the call in focus is the one made by xmindToMarkdown
  selectedFiles,  \* batch: the files selected at the prompt (line 234)
  pc,             \* batch: position of each file's processFile task
  zipOf,          \* batch: per task, the zip object loaded (line 56)
  parsed,         \* batch: per task, the value readXmindContent returned
  caught,         \* batch: per task, the error thrown (in flight, then caught at line 288)
  rowData,        \* batch: per task, rowData[4] (line 274)
  table,          \* batch: the rows pushed to the table, in order (line 294)
  errorMsgList,   \* batch: the messages pushed (lines 164, 290)
  progress,       \* batch: totalProgressBar's value (line 295)
  main,           \* batch: position of the main program (line 304)
  fsDirs,         \* file system: the directories that exist at or under the output directory
  fsFiles,        \* file system: output path -> content of the file there
  writes          \* file system: the writeFileSync calls made, in order

renderVars == <<content, rpc, i, markdown, thrown, callNode, callLevel, callOut, callRoot>>
batchVars == <<selectedFiles, pc, zipOf, parsed, caught, rowData, table, errorMsgList,
               progress, main, fsDirs, fsFiles, writes>>
vars == <<content, mode, rpc, i, markdown, thrown, callNode, callLevel, callOut, callRoot,
          selectedFiles, pc, zipOf, parsed, caught, rowData, table, errorMsgList,
          progress, main, fsDirs, fsFiles, writes>>

-----------------------------------------------------------------------------
(* JavaScript values *)

Undefined == [t |-> "undefined", v |-> ""]
Null == [t |-> "null", v |-> ""]
Str(s) == [t |-> "string", v |-> s]
Num(s) == [t |-> "number", v |-> s]
Arr(items) == [t |-> "array", items |-> items]

\* !x for the values of the model: undefined, null, "" and 0 are falsy
Falsy(x) ==
  \/ x.t \in {"undefined", "null"}
  \/ x.t = "string" /\ x.v = ""
  \/ x.t = "number" /\ x.v = "0"

\* `${x}` for a primitive
toText(x) == IF x.t \in {"undefined", "null"} THEN x.t ELSE x.v

\* a Topic object: {title, children}; children is Undefined or {attached}
Node(title, children) == [t |-> "object", title |-> title, children |-> children]
Children(attached) == [t |-> "object", attached |-> attached]
\* a Sheet object: {title, rootTopic}
Sheet(title, rootTopic) == [t |-> "object", title |-> title, rootTopic |-> rootTopic]

\* results of a call: a returned value or a thrown error
Return(value) == [kind |-> "return", value |-> value]
Throw(name, message) == [kind |-> "throw", name |-> name, message |-> message]

MsgNoContent == "content.json not found in the XMind file"
MsgInvalidFormat == "invalid XMind content format"
MsgNullSheet == "Cannot read properties of null (reading 'rootTopic')"

\* String.prototype.repeat
RECURSIVE Repeat(_, _)
Repeat(s, n) == IF n <= 0 THEN "" ELSE s \o Repeat(s, n - 1)

Min(a, b) == IF a < b THEN a ELSE b
Max(a, b) == IF a > b THEN a ELSE b

-----------------------------------------------------------------------------
(* The outline renderer *)

MaxHeading == 6

getNodeTitle(node) ==
  IF Falsy(node) THEN ""
  ELSE IF node.title.t = "string" THEN node.title.v
  ELSE ""

\* the default of a parameter applies when the argument is undefined
DefaultMode(m) == IF m = Undefined THEN Str("heading") ELSE m

\* node.children?.attached || []
attachedChildren(node) ==
  IF node.children.t \in {"undefined", "null"} THEN <<>>
  ELSE IF Falsy(node.children.attached) THEN <<>>
  ELSE node.children.attached.items

\* mutant of nodeLine: a mode other than "list" is rendered as headings
nodeLineListOnly(title, level, m) ==
  IF m = Str("list")
  THEN Repeat("  ", Max(0, level - 1)) \o "- " \o title \o "\n"
  ELSE Repeat("#", Min(level, MaxHeading)) \o " " \o title \o "\n\n"

\* mutant of nodeLine: the heading level is not clamped
nodeLineNoClamp(title, level, m) ==
  IF m = Str("heading")
  THEN Repeat("#", level) \o " " \o title \o "\n\n"
  ELSE Repeat("  ", Max(0, level - 1)) \o "- " \o title \o "\n"

\* mutant of nodeLine: the list indentation is one step too deep
nodeLineIndentLevel(title, level, m) ==
  IF m = Str("heading")
  THEN Repeat("#", Min(level, MaxHeading)) \o " " \o title \o "\n\n"
  ELSE Repeat("  ", Max(0, level)) \o "- " \o title \o "\n"

\* lines 91-99: the node's own line
nodeLine(title, level, m) ==
  IF m = Str("heading")
  THEN Repeat("#", Min(level, MaxHeading)) \o " " \o title \o "\n\n"
  ELSE Repeat("  ", Max(0, level - 1)) \o "- " \o title \o "\n"

RECURSIVE nodeToMarkdown(_, _, _)
RECURSIVE childrenLoop(_, _, _, _, _)

\* mutant of childrenLoop: the children are visited last to first
RECURSIVE childrenLoopReversed(_, _, _, _, _)
childrenLoopReversed(children, k, md, level, m) ==
  IF k > Len(children) THEN md
  ELSE childrenLoopReversed(children, k + 1,
         md \o nodeToMarkdown(children[Len(children) + 1 - k], level + 1, m), level, m)

\* lines 103-105: for (const child of children) md += nodeToMarkdown(child, level + 1, mode)
childrenLoop(children, k, md, level, m) ==
  IF k > Len(children) THEN md
  ELSE childrenLoop(children, k + 1,
                    md \o nodeToMarkdown(children[k], level + 1, m), level, m)

nodeToMarkdown(node, level, m) ==
  IF Falsy(node) THEN ""
  ELSE childrenLoop(attachedChildren(node), 1,
                    nodeLine(getNodeTitle(node), level, DefaultMode(m)),
                    level, DefaultMode(m))

\* mutant of sheetTitled: the number of sheets is not looked at
sheetTitledAnyCount(sheet, n) == ~Falsy(sheet.title)

\* lines 132-137: the level at which a sheet's root topic is rendered
sheetTitled(sheet, n) == ~Falsy(sheet.title) /\ n > 1
rootLevel(sheet, n) == IF sheetTitled(sheet, n) THEN 2 ELSE 1

\* mutant of sheetIteration: the separator follows every sheet
sheetIterationSepAfter(items, idx, md, m) ==
  LET sheet == items[idx + 1]
  IN IF sheet.t \in {"undefined", "null"} THEN Throw("TypeError", MsgNullSheet)
     ELSE IF sheetTitled(sheet, Len(items))
     THEN Return(md \o "# " \o toText(sheet.title) \o "\n\n"
                    \o nodeToMarkdown(sheet.rootTopic, 2, m) \o "\n---\n\n")
     ELSE Return(md \o nodeToMarkdown(sheet.rootTopic, 1, m) \o "\n---\n\n")

\* lines 125-137: one iteration of the loop over the sheets, i zero-based
sheetIteration(items, idx, md, m) ==
  LET sheet == items[idx + 1]
      sep == IF idx > 0 THEN "\n---\n\n" ELSE ""
  IN IF sheet.t \in {"undefined", "null"} THEN Throw("TypeError", MsgNullSheet)
     ELSE IF sheetTitled(sheet, Len(items))
     THEN Return(md \o sep \o "# " \o toText(sheet.title) \o "\n\n"
                    \o nodeToMarkdown(sheet.rootTopic, 2, m))
     ELSE Return(md \o sep \o nodeToMarkdown(sheet.rootTopic, 1, m))

RECURSIVE sheetsLoop(_, _, _, _)
sheetsLoop(items, idx, md, m) ==
  IF idx >= Len(items) THEN Return(md)
  ELSE LET r == sheetIteration(items, idx, md, m)
       IN IF r.kind = "throw" THEN r ELSE sheetsLoop(items, idx + 1, r.value, m)

\* mutant of invalidContent: an empty array is let through
invalidContentNotArray(c) == c.t # "array"

\* lines 117-119
invalidContent(c) == c.t # "array" \/ Len(c.items) = 0

xmindToMarkdown(c, m) ==
  IF invalidContent(c) THEN Throw("Error", MsgInvalidFormat)
  ELSE sheetsLoop(c.items, 0, "", DefaultMode(m))

-----------------------------------------------------------------------------
(* Inputs of the renderer *)

MaxDepth == 8       \* depth of the deepest chain of topics
MaxChildren == 2    \* children per topic in the branching trees
MaxBushDepth == 3   \* depth of the branching trees
MaxSheets == 3      \* sheets per document

Digit(k) == SubSeq("123456789", k, k)

\* the tree of the given depth and width; a topic's title is its path
RECURSIVE FullTree(_, _, _)
FullTree(depth, width, label) ==
  IF depth <= 1 \/ width = 0 THEN Node(Str(label), Undefined)
  ELSE Node(Str(label),
            Children(Arr([k \in 1..width |-> FullTree(depth - 1, width, label \o Digit(k))])))

Trees ==
  {FullTree(d, 1, "T") : d \in 1..MaxDepth}
  \cup {FullTree(d, w, "T") : d \in 2..MaxBushDepth, w \in 2..MaxChildren}
  \cup {Node(Str(""), Undefined), Node(Undefined, Undefined), Node(Num("7"), Undefined),
        Node(Str("#x"), Children(Undefined)), Node(Str("E"), Children(Arr(<<>>))),
        Node(Str("P"), Children(Arr(<<Node(Str("Q"), Undefined), Null,
                                      Node(Undefined, Children(Arr(<<Node(Str("R"), Undefined)>>)))>>)))}

RootTopics == Trees \cup {Undefined, Null}
SheetTitles == {Undefined, Str(""), Str("S")}
Sheets == {Sheet(t, r) : t \in SheetTitles, r \in RootTopics}
SmallSheets ==
  {Sheet(Str("S"), FullTree(2, 2, "T")), Sheet(Undefined, FullTree(1, 1, "U")),
   Sheet(Str(""), FullTree(2, 1, "V")), Sheet(Str("W"), Undefined), Null}

RECURSIVE SeqsUpTo(_, _)
SeqsUpTo(S, n) ==
  IF n = 0 THEN {<<>>}
  ELSE LET shorter == SeqsUpTo(S, n - 1)
       IN shorter \cup {Append(s, x) : s \in {q \in shorter : Len(q) = n - 1}, x \in S}

Documents ==
  {Arr(s) : s \in SeqsUpTo(SmallSheets, MaxSheets)}
  \cup {Arr(<<a>>) : a \in Sheets}
  \cup {Arr(<<a, b>>) : a \in Sheets, b \in SmallSheets}
Contents == Documents \cup {Null, Undefined, Str("[]")}

\* the mode argument: omitted, the two modes, and other values
Modes == {Undefined, Str("heading"), Str("list"), Str("table"), Str(""), Null}

-----------------------------------------------------------------------------
(* xmindToMarkdown as the steps of its loop, with one nodeToMarkdown call in focus *)

NoError == [kind |-> "none"]

BatchIdle ==
  /\ selectedFiles = {}
  /\ pc = <<>>
  /\ zipOf = <<>>
  /\ parsed = <<>>
  /\ caught = <<>>
  /\ rowData = <<>>
  /\ table = <<>>
  /\ errorMsgList = <<>>
  /\ progress = 0
  /\ main = "idle"
  /\ fsDirs = {}
  /\ fsFiles = <<>>
  /\ writes = <<>>

RenderInit ==
  /\ content \in Contents
  /\ mode \in Modes
  /\ rpc = "called"
  /\ i = 0
  /\ markdown = ""
  /\ thrown = NoError
  /\ callNode = Undefined
  /\ callLevel = 0
  /\ callOut = ""
  /\ callRoot = FALSE
  /\ BatchIdle

\* lines 117-121
Validate ==
  /\ rpc = "called"
  /\ IF invalidContent(content)
     THEN /\ rpc' = "thrown"
          /\ thrown' = Throw("Error", MsgInvalidFormat)
     ELSE /\ rpc' = "loop"
          /\ thrown' = thrown
  /\ i' = 0
  /\ markdown' = ""
  /\ UNCHANGED <<content, mode, callNode, callLevel, callOut, callRoot>>
  /\ UNCHANGED batchVars

\* lines 124-137: the iteration for sheet i
SheetStep ==
  /\ rpc = "loop"
  /\ i < Len(content.items)
  /\ LET r == sheetIteration(content.items, i, markdown, DefaultMode(mode))
         sheet == content.items[i + 1]
     IN IF r.kind = "throw"
        THEN /\ rpc' = "thrown"
             /\ thrown' = r
             /\ UNCHANGED <<i, markdown, callNode, callLevel, callOut, callRoot>>
        ELSE /\ markdown' = r.value
             /\ i' = i + 1
             /\ callNode' = sheet.rootTopic
             /\ callLevel' = rootLevel(sheet, Len(content.items))
             /\ callOut' = nodeToMarkdown(sheet.rootTopic,
                                          rootLevel(sheet, Len(content.items)),
                                          DefaultMode(mode))
             /\ callRoot' = TRUE
             /\ UNCHANGED <<rpc, thrown>>
  /\ UNCHANGED <<content, mode>>
  /\ UNCHANGED batchVars

\* line 104: the recursive call for child k of the call in focus
Descend(k) ==
  /\ rpc \in {"loop", "returned"}
  /\ callLevel > 0
  /\ ~Falsy(callNode)
  /\ k \in 1..Len(attachedChildren(callNode))
  /\ callNode' = attachedChildren(callNode)[k]
  /\ callLevel' = callLevel + 1
  /\ callOut' = nodeToMarkdown(attachedChildren(callNode)[k], callLevel + 1,
                               DefaultMode(mode))
  /\ callRoot' = FALSE
  /\ UNCHANGED <<content, mode, rpc, i, markdown, thrown>>
  /\ UNCHANGED batchVars

\* lines 124 (loop exit) and 140
ReturnMarkdown ==
  /\ rpc = "loop"
  /\ i >= Len(content.items)
  /\ rpc' = "returned"
  /\ UNCHANGED <<content, mode, i, markdown, thrown, callNode, callLevel, callOut, callRoot>>
  /\ UNCHANGED batchVars

RenderNext ==
  \/ Validate
  \/ SheetStep
  \/ \E k \in 1..(MaxChildren + 1) : Descend(k)
  \/ ReturnMarkdown

SpecRender == RenderInit /\ [][RenderNext]_vars

-----------------------------------------------------------------------------
(* Paths (the path module) *)

IndexesOf(ch, p) == {k \in 1..Len(p) : SubSeq(p, k, k) = ch}
LastIndexOf(ch, p) == CHOOSE k \in IndexesOf(ch, p) : \A j \in IndexesOf(ch, p) : j <= k

EndsWith(s, suffix) ==
  Len(s) >= Len(suffix) /\ SubSeq(s, Len(s) - Len(suffix) + 1, Len(s)) = suffix

\* path.join(dir, item)
pathJoin(dir, item) == dir \o "/" \o item

\* path.basename(p, ext): the last segment, without ext when it ends with it
basename(p, ext) ==
  LET base == IF IndexesOf("/", p) = {} THEN p
              ELSE SubSeq(p, LastIndexOf("/", p) + 1, Len(p))
  IN IF EndsWith(base, ext) /\ base # ext
     THEN SubSeq(base, 1, Len(base) - Len(ext))
     ELSE base

\* path.extname(item): from the last "." of the name, "" when there is none
\* or when it is the first character
extname(item) ==
  IF IndexesOf(".", item) = {} \/ LastIndexOf(".", item) = 1 THEN ""
  ELSE SubSeq(item, LastIndexOf(".", item), Len(item))

\* __dirname/../result/markdown
OutputDir == "result/markdown"

\* lines 266-273: the output path of a file
saveDir(file) == pathJoin(OutputDir, basename(file, ".xmind") \o ".md")

-----------------------------------------------------------------------------
(* The input directory: a tree of directories and files *)

\* a file: readable or not (readFileSync), a zip container or not (JSZip.loadAsync),
\* and the entries of the container as <<name, text>> pairs
Archive(entries) == [readable |-> TRUE, zip |-> TRUE, entries |-> entries]
Unreadable == [readable |-> FALSE, zip |-> FALSE, entries |-> <<>>]
NotAZip == [readable |-> TRUE, zip |-> FALSE, entries |-> <<>>]

File(name, archive) == [kind |-> "file", name |-> name, archive |-> archive]
Dir(name, items) == [kind |-> "dir", name |-> name, items |-> items]

TextPlan ==
  "[{\"title\":\"Plan\",\"rootTopic\":{\"title\":\"Root\",\"children\":{\"attached\":[{\"title\":\"A\"},{\"title\":\"B\"}]}}}]"
TextTwoSheets ==
  "[{\"title\":\"S1\",\"rootTopic\":{\"title\":\"X\"}},{\"rootTopic\":{\"title\":\"Y\"}}]"
TextLeaf == "[{\"rootTopic\":{\"title\":\"W\"}}]"

TextTruncated == "{\"title\":"

\* JSON.parse, on the texts the input directory holds (no other text is parsed)
JSONparse(text) ==
  CASE text = TextPlan ->
         Return(Arr(<<Sheet(Str("Plan"),
                            Node(Str("Root"),
                                 Children(Arr(<<Node(Str("A"), Undefined),
                                                Node(Str("B"), Undefined)>>))))>>))
    [] text = TextTwoSheets ->
         Return(Arr(<<Sheet(Str("S1"), Node(Str("X"), Undefined)),
                      Sheet(Undefined, Node(Str("Y"), Undefined))>>))
    [] text = TextLeaf -> Return(Arr(<<Sheet(Undefined, Node(Str("W"), Undefined))>>))
    [] text = "[]" -> Return(Arr(<<>>))
    [] text = "[null]" -> Return(Arr(<<Null>>))
    [] text = "null" -> Return(Null)
    [] text = "{}" -> Return([t |-> "object", title |-> Undefined, rootTopic |-> Undefined])
    [] text = TextTruncated -> Throw("SyntaxError", "Unexpected end of JSON input")

RootDir ==
  <<Dir("a", <<File("x.xmind", Archive(<<<<"content.json", TextPlan>>, <<"metadata.json", "{}">>>>)),
               File("y.xmind", Archive(<<<<"content.xml", "<xmap/>">>>>)),
               File("z.xmind", Archive(<<<<"content.json", "[]">>>>)),
               File("u.xmind", Archive(<<<<"content.json", "[null]">>>>)),
               File("w.xmind", Archive(<<<<"content.json", TextLeaf>>>>)),
               File("notes.txt", NotAZip)>>),
    Dir("b", <<File("x.xmind", Archive(<<<<"content.json", TextTwoSheets>>>>)),
               File("y.xmind", Archive(<<<<"content.json", TextTruncated>>>>)),
               File("z.xmind", Archive(<<<<"content.json", "null">>>>)),
               Dir("c", <<File("u.xmind", NotAZip),
                          File("v.xmind", Unreadable)>>)>>)>>

\* lines 35-47
RECURSIVE collectXmindFiles(_, _, _)
RECURSIVE collectItems(_, _, _, _)
collectItems(dir, items, k, files) ==
  IF k > Len(items) THEN files
  ELSE LET item == items[k]
           fullPath == pathJoin(dir, item.name)
       IN IF item.kind = "dir"
          THEN collectItems(dir, items, k + 1, collectXmindFiles(fullPath, item.items, files))
          ELSE IF extname(item.name) = ".xmind"
          THEN collectItems(dir, items, k + 1, Append(files, fullPath))
          ELSE collectItems(dir, items, k + 1, files)
collectXmindFiles(dir, items, files) == collectItems(dir, items, 1, files)

InputDir == "in"
xmindFiles == collectXmindFiles(InputDir, RootDir, <<>>)
Range(s) == {s[k] : k \in 1..Len(s)}

\* the file at a path of the input directory
RECURSIVE FilesUnder(_, _)
FilesUnder(dir, items) ==
  IF items = <<>> THEN {}
  ELSE LET item == Head(items)
           here == IF item.kind = "dir"
                   THEN FilesUnder(pathJoin(dir, item.name), item.items)
                   ELSE {<<pathJoin(dir, item.name), item.archive>>}
       IN here \cup FilesUnder(dir, Tail(items))
\* the files of the input directory, by path
inputFiles == FilesUnder(InputDir, RootDir)
archiveAt(path) == (CHOOSE e \in inputFiles : e[1] = path)[2]

-----------------------------------------------------------------------------
(* The archive extractor *)

\* the object JSZip.loadAsync resolves to
Zip(entries) == [t |-> "object", entries |-> entries]

\* zip.file(name): the entry of that name, or null
zipFile(entries, name) ==
  IF \E k \in 1..Len(entries) : entries[k][1] = name
  THEN [t |-> "object", text |-> entries[CHOOSE k \in 1..Len(entries) : entries[k][1] = name][2]]
  ELSE Null

MsgNotZip ==
  "Can't find end of central directory : is this a zip file ? If it is, see https://stuk.github.io/jszip/documentation/howto/read_zip.html"
accessDenied(path) == "EACCES: permission denied, open '" \o path \o "'"
isDirectory(path) == "EISDIR: illegal operation on a directory, open '" \o path \o "'"

\* line 55: fs.readFileSync(xmindPath)
readFileSync(xmindPath) ==
  IF ~archiveAt(xmindPath).readable THEN Throw("Error", accessDenied(xmindPath))
  ELSE Return(archiveAt(xmindPath))

\* line 56: what JSZip.loadAsync(data) settles to
loadAsync(data) ==
  IF ~data.zip THEN Throw("Error", MsgNotZip) ELSE Return(Zip(data.entries))

\* lines 57-60: the entry content.json of the zip, or the error of line 59
contentFileOf(zip) ==
  IF zipFile(zip.entries, "content.json").t = "null"
  THEN Throw("Error", MsgNoContent)
  ELSE Return(zipFile(zip.entries, "content.json"))

\* lines 54-63: what the promise of readXmindContent settles to (the steps
\* StartTask, ZipLoaded and ContentRead take it await by await)
readXmindContent(xmindPath) ==
  LET data == readFileSync(xmindPath)
  IN IF data.kind = "throw" THEN data
     ELSE LET zip == loadAsync(data.value)
          IN IF zip.kind = "throw" THEN zip
             ELSE LET contentFile == contentFileOf(zip.value)
                  IN IF contentFile.kind = "throw" THEN contentFile
                     ELSE JSONparse(contentFile.value.text)

-----------------------------------------------------------------------------
(* The batch: one processFile task per selected file, under pLimit(5) *)

MaxFiles == 2            \* files selected at the prompt
ConcurrencyLimit == 5    \* pLimit(5)

\* line 289
errorMessage(file, error) == "file " \o file \o " error: " \o error.message

\* the row a task pushes: file name, output path and result (size and time left out)
Row(file, result) ==
  [fileName |-> basename(file, ".xmind"), saveDir |-> saveDir(file), result |-> result]

RenderIdle ==
  /\ content = Null
  /\ rpc = "idle"
  /\ i = 0
  /\ markdown = ""
  /\ thrown = NoError
  /\ callNode = Undefined
  /\ callLevel = 0
  /\ callOut = ""
  /\ callRoot = FALSE

\* the output directory before the batch: absent, or present with an older
\* x.md and a directory named w.md
InitialOutputs ==
  {[dirs |-> {}, files |-> <<>>],
   [dirs |-> {OutputDir, pathJoin(OutputDir, "w.md")},
    files |-> [q \in {pathJoin(OutputDir, "x.md")} |-> "old"]]}

BatchInit ==
  /\ RenderIdle
  /\ mode \in {Str("heading"), Str("list")}
  /\ selectedFiles \in {S \in SUBSET Range(xmindFiles) :
                          Cardinality(S) >= 1 /\ Cardinality(S) <= MaxFiles}
  /\ pc = [f \in selectedFiles |-> "queued"]
  /\ zipOf = [f \in selectedFiles |-> Null]
  /\ parsed = [f \in selectedFiles |-> Undefined]
  /\ caught = [f \in selectedFiles |-> NoError]
  /\ rowData = [f \in selectedFiles |-> "-"]
  /\ table = <<>>
  /\ errorMsgList = <<>>
  /\ progress = 0
  /\ main = "awaiting"
  /\ \E o \in InitialOutputs : fsDirs = o.dirs /\ fsFiles = o.files
  /\ writes = <<>>

\* mutant of catchError: the message is not recorded
catchErrorUnrecorded(f, error) ==
  /\ errorMsgList' = errorMsgList
  /\ rowData' = [rowData EXCEPT ![f] = "failed"]
  /\ table' = Append(table, Row(f, "failed"))
  /\ progress' = progress + 1
  /\ pc' = [pc EXCEPT ![f] = "done"]

\* lines 288-295: the catch block, then the row and the progress bar
catchError(f, error) ==
  /\ errorMsgList' = Append(errorMsgList, errorMessage(f, error))
  /\ rowData' = [rowData EXCEPT ![f] = "failed"]
  /\ table' = Append(table, Row(f, "failed"))
  /\ progress' = progress + 1
  /\ pc' = [pc EXCEPT ![f] = "done"]

activeCount == Cardinality({f \in selectedFiles : pc[f] \notin {"queued", "done"}})

\* a throw inside readXmindContent: its promise is rejected with the error
rejectRead(f, error) ==
  /\ pc' = [pc EXCEPT ![f] = "readRejected"]
  /\ caught' = [caught EXCEPT ![f] = error]

\* a throw inside convertXmindFile: its promise is rejected with the error
rejectConvert(f, error) ==
  /\ pc' = [pc EXCEPT ![f] = "convertRejected"]
  /\ caught' = [caught EXCEPT ![f] = error]

\* lines 300, 265-281, 149-150, 55-56: pLimit starts the task; it runs to the
\* await of JSZip.loadAsync, or readFileSync throws inside readXmindContent
StartTask(f) ==
  /\ main = "awaiting"
  /\ pc[f] = "queued"
  /\ activeCount < ConcurrencyLimit
  /\ rowData' = [rowData EXCEPT ![f] = "processing"]
  /\ IF readFileSync(f).kind = "throw"
     THEN rejectRead(f, readFileSync(f))
     ELSE /\ pc' = [pc EXCEPT ![f] = "loading"]
          /\ caught' = caught
  /\ UNCHANGED <<selectedFiles, zipOf, parsed, table, errorMsgList, progress,
                 main, fsDirs, fsFiles, writes>>
  /\ UNCHANGED <<mode, renderVars>>

\* lines 56-61: loadAsync settles; the entry is looked up; to the await of async("string")
ZipLoaded(f) ==
  /\ pc[f] = "loading"
  /\ LET zip == loadAsync(readFileSync(f).value)
     IN IF zip.kind = "throw"
        THEN /\ rejectRead(f, zip)
             /\ zipOf' = zipOf
        ELSE /\ zipOf' = [zipOf EXCEPT ![f] = zip.value]
             /\ IF contentFileOf(zip.value).kind = "throw"
                THEN rejectRead(f, contentFileOf(zip.value))
                ELSE /\ pc' = [pc EXCEPT ![f] = "reading"]
                     /\ caught' = caught
  /\ UNCHANGED <<selectedFiles, parsed, rowData, table, errorMsgList, progress,
                 main, fsDirs, fsFiles, writes>>
  /\ UNCHANGED <<mode, renderVars>>

\* lines 61-62: the text is read and parsed; the promise of readXmindContent settles
ContentRead(f) ==
  /\ pc[f] = "reading"
  /\ LET r == JSONparse(contentFileOf(zipOf[f]).value.text)
     IN IF r.kind = "throw"
        THEN /\ rejectRead(f, r)
             /\ parsed' = parsed
        ELSE /\ pc' = [pc EXCEPT ![f] = "parsed"]
             /\ parsed' = [parsed EXCEPT ![f] = r.value]
             /\ caught' = caught
  /\ UNCHANGED <<selectedFiles, zipOf, rowData, table, errorMsgList, progress,
                 main, fsDirs, fsFiles, writes>>
  /\ UNCHANGED <<mode, renderVars>>

\* line 150: the await of readXmindContent throws in convertXmindFile, whose
\* promise is rejected in turn
ReadRejected(f) ==
  /\ pc[f] = "readRejected"
  /\ rejectConvert(f, caught[f])
  /\ UNCHANGED <<selectedFiles, zipOf, parsed, rowData, table, errorMsgList, progress,
                 main, fsDirs, fsFiles, writes>>
  /\ UNCHANGED <<mode, renderVars>>

\* mutant of RenderAndWrite: the output directory is made before rendering
RenderAndWriteMkdirFirst(f) ==
  /\ pc[f] = "parsed"
  /\ fsDirs' = fsDirs \cup {OutputDir}
  /\ LET r == xmindToMarkdown(parsed[f], mode)
     IN IF r.kind = "throw"
        THEN /\ rejectConvert(f, r)
             /\ UNCHANGED <<fsFiles, writes>>
        ELSE IF saveDir(f) \in fsDirs
        THEN /\ rejectConvert(f, Throw("Error", isDirectory(saveDir(f))))
             /\ UNCHANGED <<fsFiles, writes>>
        ELSE /\ fsFiles' = [q \in DOMAIN fsFiles \cup {saveDir(f)} |->
                              IF q = saveDir(f) THEN r.value ELSE fsFiles[q]]
             /\ writes' = Append(writes, [file |-> f, path |-> saveDir(f), data |-> r.value])
             /\ pc' = [pc EXCEPT ![f] = "converted"]
             /\ caught' = caught
  /\ UNCHANGED <<selectedFiles, zipOf, parsed, rowData, table, errorMsgList, progress, main>>
  /\ UNCHANGED <<mode, renderVars>>

\* lines 150-160: readXmindContent has returned; render, make the output
\* directory, write the file
RenderAndWrite(f) ==
  /\ pc[f] = "parsed"
  /\ LET r == xmindToMarkdown(parsed[f], mode)
     IN IF r.kind = "throw"
        THEN /\ rejectConvert(f, r)
             /\ UNCHANGED <<fsDirs, fsFiles, writes>>
        ELSE IF saveDir(f) \in fsDirs
        THEN /\ rejectConvert(f, Throw("Error", isDirectory(saveDir(f))))
             /\ fsDirs' = fsDirs \cup {OutputDir}
             /\ UNCHANGED <<fsFiles, writes>>
        ELSE /\ fsDirs' = fsDirs \cup {OutputDir}
             /\ fsFiles' = [q \in DOMAIN fsFiles \cup {saveDir(f)} |->
                              IF q = saveDir(f) THEN r.value ELSE fsFiles[q]]
             /\ writes' = Append(writes, [file |-> f, path |-> saveDir(f), data |-> r.value])
             /\ pc' = [pc EXCEPT ![f] = "converted"]
             /\ caught' = caught
  /\ UNCHANGED <<selectedFiles, zipOf, parsed, rowData, table, errorMsgList, progress, main>>
  /\ UNCHANGED <<mode, renderVars>>

\* lines 281, 288-295: the await of convertXmindFile throws in processFile; the
\* catch block records the failure
ConvertRejected(f) ==
  /\ pc[f] = "convertRejected"
  /\ catchError(f, caught[f])
  /\ UNCHANGED <<selectedFiles, zipOf, parsed, caught, main, fsDirs, fsFiles, writes>>
  /\ UNCHANGED <<mode, renderVars>>

\* lines 281-287, 294-295: convertXmindFile has returned
Complete(f) ==
  /\ pc[f] = "converted"
  /\ pc' = [pc EXCEPT ![f] = "done"]
  /\ rowData' = [rowData EXCEPT ![f] = "completed"]
  /\ table' = Append(table, Row(f, "completed"))
  /\ progress' = progress + 1
  /\ UNCHANGED <<selectedFiles, zipOf, parsed, caught, errorMsgList, main, fsDirs, fsFiles, writes>>
  /\ UNCHANGED <<mode, renderVars>>

\* lines 304-317: Promise.all resolves; the errors and the table are reported
AllSettled ==
  /\ main = "awaiting"
  /\ \A f \in selectedFiles : pc[f] = "done"
  /\ main' = "reported"
  /\ UNCHANGED <<selectedFiles, pc, zipOf, parsed, caught, rowData, table, errorMsgList,
                 progress, fsDirs, fsFiles, writes>>
  /\ UNCHANGED <<mode, renderVars>>

BatchNext ==
  \/ \E f \in selectedFiles : StartTask(f)
  \/ \E f \in selectedFiles : ZipLoaded(f)
  \/ \E f \in selectedFiles : ContentRead(f)
  \/ \E f \in selectedFiles : ReadRejected(f)
  \/ \E f \in selectedFiles : RenderAndWrite(f)
  \/ \E f \in selectedFiles : ConvertRejected(f)
  \/ \E f \in selectedFiles : Complete(f)
  \/ AllSettled

SpecBatch == BatchInit /\ [][BatchNext]_vars

\* the event loop runs a continuation whenever one is ready: JSZip's promises
\* settle, and a settled promise's continuation is run
FairBatch ==
  /\ BatchInit
  /\ [][BatchNext]_vars
  /\ WF_vars(BatchNext)

-----------------------------------------------------------------------------
(* Properties of the renderer, checked under SpecRender *)

\* a Document of the data model: a non-empty sequence of Sheet objects
ValidDocument(c) ==
  /\ c.t = "array"
  /\ Len(c.items) > 0
  /\ \A n \in 1..Len(c.items) : c.items[n].t = "object"

ExplicitOtherMode(m) == m # Undefined /\ m \notin {Str("heading"), Str("list")}

TitleText(node) == IF node.title.t = "string" THEN node.title.v ELSE ""

ChildTopics(node) ==
  IF node.children.t = "object" /\ node.children.attached.t = "array"
  THEN node.children.attached.items
  ELSE <<>>

\* the topics of a tree with their levels, by an explicit stack: a topic,
\* then its children left to right, each followed by its own descendants
RECURSIVE Walk(_, _)
Walk(stack, acc) ==
  IF stack = <<>> THEN acc
  ELSE LET top == Head(stack)
       IN IF top.node.t # "object" THEN Walk(Tail(stack), acc)
          ELSE Walk([k \in 1..Len(ChildTopics(top.node)) |->
                       [node |-> ChildTopics(top.node)[k], level |-> top.level + 1]]
                    \o Tail(stack),
                    Append(acc, [title |-> TitleText(top.node), level |-> top.level]))

PreOrder(node, level) == Walk(<<[node |-> node, level |-> level]>>, <<>>)

RECURSIVE ConcatLines(_, _)
ConcatLines(topics, m) ==
  IF topics = <<>> THEN ""
  ELSE nodeLine(Head(topics).title, Head(topics).level, m) \o ConcatLines(Tail(topics), m)

StartsWith(s, prefix) ==
  Len(s) >= Len(prefix) /\ SubSeq(s, 1, Len(prefix)) = prefix

Separator == "\n---\n\n"

\* what one Sheet contributes to the output of a Document of n Sheets
SheetRendering(sheet, n, m) ==
  IF sheet.title.t = "string" /\ sheet.title.v # "" /\ n > 1
  THEN "# " \o sheet.title.v \o "\n\n" \o nodeToMarkdown(sheet.rootTopic, 2, m)
  ELSE nodeToMarkdown(sheet.rootTopic, 1, m)

RECURSIVE JoinSheets(_, _, _)
JoinSheets(items, n, m) ==
  IF n = 0 THEN ""
  ELSE IF n = 1 THEN SheetRendering(items[1], Len(items), m)
  ELSE JoinSheets(items, n - 1, m) \o Separator \o SheetRendering(items[n], Len(items), m)

\* C1 as stated: with an explicitly supplied mode that is neither "heading" nor
\* "list", rendering a valid non-empty Document fails with the InvalidFormat
\* error and returns no Markdown.
C1_Original ==
  (ValidDocument(content) /\ ExplicitOtherMode(mode) /\ rpc \notin {"called", "loop"})
    => (rpc = "thrown" /\ thrown = Throw("Error", MsgInvalidFormat))

\* C1 amended: with an explicitly supplied mode that is neither "heading" nor
\* "list", rendering a valid non-empty Document does not fail; it returns
\* exactly the Markdown of "list" mode.
C1_RendersAsList ==
  (ValidDocument(content) /\ ExplicitOtherMode(mode))
    => /\ rpc # "thrown"
       /\ rpc = "returned" => markdown = JoinSheets(content.items, Len(content.items), Str("list"))

C1_Witness ==
  /\ ValidDocument(content)
  /\ mode = Str("table")
  /\ rpc = "returned"
  /\ Len(markdown) > 0

\* C4: the output of a Document of n >= 1 Sheets is the per-sheet renderings in
\* sheet order, with the separator "\n---\n\n" before each Sheet but the first
\* and nowhere else.
C4_SheetsJoined ==
  (rpc = "returned")
    => markdown = JoinSheets(content.items, Len(content.items), DefaultMode(mode))

C4_Witness ==
  /\ rpc = "returned"
  /\ Len(content.items) >= 3
  /\ Len(markdown) > 2 * Len(Separator)

\* C5: the iteration for a Sheet appends (after the separator, if any) the line
\* "# <title>\n\n" and the root Topic rendered at level 2 exactly when the title
\* is non-empty and the Document has more than one Sheet; otherwise it appends
\* the root Topic rendered at level 1 and no title line.
C5_SheetTitleRule ==
  [][(rpc = "loop" /\ i' = i + 1) =>
       LET sheet == content.items[i + 1]
           n == Len(content.items)
           m == DefaultMode(mode)
           sep == IF i > 0 THEN Separator ELSE ""
           added == SubSeq(markdown', Len(markdown) + Len(sep) + 1, Len(markdown'))
       IN IF sheet.title.t = "string" /\ sheet.title.v # "" /\ n > 1
          THEN /\ added = "# " \o sheet.title.v \o "\n\n" \o nodeToMarkdown(sheet.rootTopic, 2, m)
               /\ callLevel' = 2
          ELSE /\ added = nodeToMarkdown(sheet.rootTopic, 1, m)
               /\ callLevel' = 1]_vars

C5_Witness ==
  /\ rpc \in {"loop", "returned"}
  /\ i >= 1
  /\ Len(content.items) > 1
  /\ content.items[i].title = Str("S")
  /\ content.items[i].rootTopic.t = "object"
  /\ callRoot
  /\ callLevel = 2

\* C6: a call of nodeToMarkdown on a Topic at level L returns the lines of the
\* Topics of its tree in depth-first pre-order, one line per Topic, each at its
\* own level: the Topic's line first, then each child's whole rendering at
\* level L+1 in child order.
C6_PreOrder ==
  (callLevel > 0)
    => callOut = ConcatLines(PreOrder(callNode, callLevel), DefaultMode(mode))

C6_Witness ==
  /\ callLevel > 0
  /\ callNode.t = "object"
  /\ Len(ChildTopics(callNode)) >= 2
  /\ Len(ChildTopics(ChildTopics(callNode)[1])) >= 2
  /\ Len(PreOrder(callNode, callLevel)) >= 7

\* C7: in heading mode a Topic rendered at level L >= 1 yields the line of
\* min(L, 6) '#' characters, a space, the title and "\n\n"; above level 6 the
\* line has exactly 6 '#' characters.
C7_HeadingLine ==
  (callLevel > 0 /\ callNode.t = "object" /\ DefaultMode(mode) = Str("heading"))
    => LET hashes == IF callLevel <= 6 THEN callLevel ELSE 6
           line == Repeat("#", hashes) \o " " \o TitleText(callNode) \o "\n\n"
       IN /\ StartsWith(callOut, line)
          /\ ChildTopics(callNode) = <<>> => callOut = line

C7_Witness ==
  /\ callLevel > 6
  /\ callNode.t = "object"
  /\ mode = Str("heading")
  /\ StartsWith(callOut, "###### T")

\* C8: in list mode a Topic rendered at level L >= 1 yields 2*(L-1) spaces,
\* "- ", the title and one "\n", at any depth, and also for the root Topic of a
\* titled Sheet of a multi-Sheet Document (level 2).
C8_ListLine ==
  (callLevel > 0 /\ callNode.t = "object" /\ mode = Str("list"))
    => LET line == Repeat(" ", 2 * (callLevel - 1)) \o "- " \o TitleText(callNode) \o "\n"
       IN /\ StartsWith(callOut, line)
          /\ ChildTopics(callNode) = <<>> => callOut = line

C8_Witness ==
  /\ mode = Str("list")
  /\ callRoot
  /\ callLevel = 2
  /\ callNode.t = "object"
  /\ StartsWith(callOut, "  - ")

-----------------------------------------------------------------------------
(* Properties of the conversion and of the batch *)

HasEntry(archive, name) == \E k \in 1..Len(archive.entries) : archive.entries[k][1] = name
EntryText(archive, name) ==
  archive.entries[CHOOSE k \in 1..Len(archive.entries) : archive.entries[k][1] = name][2]

\* the three causes of C9, read off the input file
IsContainer(f) == archiveAt(f).readable /\ archiveAt(f).zip
NoPayloadEntry(f) == IsContainer(f) /\ ~HasEntry(archiveAt(f), "content.json")
PayloadNotJson(f) ==
  /\ IsContainer(f)
  /\ HasEntry(archiveAt(f), "content.json")
  /\ EntryText(archiveAt(f), "content.json") = TextTruncated
PayloadNotDocument(f) ==
  /\ IsContainer(f)
  /\ HasEntry(archiveAt(f), "content.json")
  /\ EntryText(archiveAt(f), "content.json") \in {"[]", "null"}

\* the messages recorded for a file, without the "file <path> error: " prefix
MessagesFor(f) ==
  LET prefix == "file " \o f \o " error: "
  IN {SubSeq(errorMsgList[k], Len(prefix) + 1, Len(errorMsgList[k])) :
        k \in {j \in 1..Len(errorMsgList) : StartsWith(errorMsgList[j], prefix)}}

\* the error kind of a thrown error: the SyntaxError of JSON.parse, and the
\* two errors the program itself throws, told by their messages
KindOf(error) ==
  IF error.kind # "throw" THEN "None"
  ELSE IF error.name = "SyntaxError" THEN "MalformedPayload"
  ELSE IF error.message = MsgNoContent THEN "MissingPayload"
  ELSE IF error.message = MsgInvalidFormat THEN "InvalidFormat"
  ELSE "Other"

WritesOf(f) == {k \in 1..Len(writes) : writes[k].file = f}

\* whether the conversion of f fails in readXmindContent or in xmindToMarkdown
FailsBeforeWrite(f) ==
  \/ readXmindContent(f).kind = "throw"
  \/ xmindToMarkdown(readXmindContent(f).value, mode).kind = "throw"

\* whether the conversion of f, taken alone, succeeds: extraction, rendering
\* and the write to an output path that is not a directory
SucceedsAlone(f) ==
  /\ ~FailsBeforeWrite(f)
  /\ pathJoin(OutputDir, basename(f, ".xmind") \o ".md") \notin fsDirs

doneFiles == {f \in selectedFiles : pc[f] = "done"}

C2_Outcome(f) ==
  pc[f] = "done" =>
    /\ rowData[f] \in {"completed", "failed"}
    /\ rowData[f] = "completed" <=> SucceedsAlone(f)
    /\ rowData[f] = "completed" =>
         /\ Cardinality(WritesOf(f)) = 1
         /\ \A k \in WritesOf(f) :
              writes[k].data = xmindToMarkdown(readXmindContent(f).value, mode).value
         /\ MessagesFor(f) = {}
    /\ rowData[f] = "failed" => Cardinality(MessagesFor(f)) = 1 /\ WritesOf(f) = {}

\* C2: whatever the other files of the batch do, and in every interleaving,
\* each selected file ends with exactly one outcome: completed, with its own
\* Markdown written, exactly when its own conversion succeeds, and failed, with
\* its message recorded, otherwise; and the batch always ends with every file
\* reported.
C2_FailureIsolation ==
  /\ [](\A f \in selectedFiles : C2_Outcome(f))
  /\ [](Len(table) = Cardinality(doneFiles) /\ progress = Cardinality(doneFiles))
  /\ <>[](main = "reported" /\ Len(table) = Cardinality(selectedFiles))

C2_Witness ==
  /\ main = "reported"
  /\ Cardinality(selectedFiles) >= 2
  /\ \E f, g \in selectedFiles :
       /\ rowData[f] = "failed"
       /\ rowData[g] = "completed"
       /\ table[1].fileName = basename(f, ".xmind")
       /\ fsFiles[saveDir(g)] = writes[1].data
  /\ Len(errorMsgList) = 1

\* C3 as stated: no two tasks of a batch write the same output path.
C3_DistinctOutputPaths ==
  \A a, b \in 1..Len(writes) :
    writes[a].file # writes[b].file => writes[a].path # writes[b].path

\* C9: a file without a content.json entry ends with the MissingPayload error,
\* one whose content.json is not JSON with the MalformedPayload error, one whose
\* payload is an empty or non-sequence Document with the InvalidFormat error;
\* the three errors differ in kind and in the message recorded, and no
\* Markdown is written.
C9_ErrorKinds ==
  \A f \in selectedFiles :
    (pc[f] = "done" /\ (NoPayloadEntry(f) \/ PayloadNotJson(f) \/ PayloadNotDocument(f))) =>
      /\ rowData[f] = "failed"
      /\ WritesOf(f) = {}
      /\ KindOf(caught[f]) =
           (IF NoPayloadEntry(f) THEN "MissingPayload"
            ELSE IF PayloadNotJson(f) THEN "MalformedPayload"
            ELSE "InvalidFormat")
      /\ MessagesFor(f) = {caught[f].message}
      /\ \A g \in selectedFiles :
           (caught[g].kind = "throw" /\ KindOf(caught[g]) # KindOf(caught[f])) =>
             caught[g].message # caught[f].message

C9_Witness ==
  /\ \E f, g \in doneFiles :
       /\ NoPayloadEntry(f) \/ PayloadNotJson(f)
       /\ PayloadNotDocument(g)
       /\ KindOf(caught[f]) # KindOf(caught[g])
       /\ MessagesFor(f) # MessagesFor(g)
  /\ Len(errorMsgList) = 2
  /\ writes = <<>>

\* C10: no step of a conversion that fails in readXmindContent or in
\* xmindToMarkdown creates the output directory or creates or overwrites a file.
C10_NoWriteOnFailure ==
  [][\A f \in selectedFiles :
       (pc'[f] # pc[f] /\ FailsBeforeWrite(f)) => UNCHANGED <<fsDirs, fsFiles, writes>>]_vars

C10_Witness ==
  \E f \in selectedFiles :
    /\ pc[f] = "done"
    /\ readXmindContent(f).kind = "return"
    /\ FailsBeforeWrite(f)
    /\ rowData[f] = "failed"
    /\ fsDirs = {}
    /\ selectedFiles = {f}

====
